---- MODULE Spec2Model ----
(***************************************************************************)
(* Model of src/DLEAMSE/search_embedded-spectra_against_index.py:          *)
(* load a FAISS index, load query vectors, k-NN search, write the results. *)
(* Two entry paths exist in the file: main() (argparse CLI) and the batch  *)
(* loop of the __main__ block, which calls executeSearch once per file.    *)
(***************************************************************************)
EXTENDS Integers, Sequences, FiniteSets, TLC

(***************************************************************************)
(* Bounds of the model and constants of the program.                       *)
(***************************************************************************)
MaxFiles == 2       \* most 'embedded' paths given to main on the command line
MaxRows == 2        \* most rows stored in one query file
MaxCols == 2        \* most columns stored in one query file
MaxStored == 2      \* most vectors stored in an index
NumFiles == 2       \* length of all_file modelled (24 in the script)
DefaultK == 5
BatchK == 1

H5_MATRIX_NAME == "MATRIX"

(***************************************************************************)
(* Strings are sequences of one-character strings, so that rfind, slicing  *)
(* and lower() are computed, not assumed.                                  *)
(***************************************************************************)
UpperChars == <<"A","B","C","D","E","F","G","H","I","J","K","L","M",
                "N","O","P","Q","R","S","T","U","V","W","X","Y","Z">>
LowerChars == <<"a","b","c","d","e","f","g","h","i","j","k","l","m",
                "n","o","p","q","r","s","t","u","v","w","x","y","z">>

\* str.lower() on one character
lowerChar(c) ==
    IF \E i \in 1..Len(UpperChars) : UpperChars[i] = c
    THEN LowerChars[CHOOSE i \in 1..Len(UpperChars) : UpperChars[i] = c]
    ELSE c

\* str.lower()
lower(s) == [i \in 1..Len(s) |-> lowerChar(s[i])]

\* str.rfind(ch): highest 0-based position of ch in s, -1 when absent
rfind(s, ch) ==
    IF \E i \in 1..Len(s) : s[i] = ch
    THEN (CHOOSE i \in 1..Len(s) : s[i] = ch /\ \A j \in (i+1)..Len(s) : s[j] # ch) - 1
    ELSE -1

\* s[start:] with Python's treatment of a negative start
sliceFrom(s, start) ==
    LET from == IF start < 0
                THEN (IF Len(s) + start < 0 THEN 0 ELSE Len(s) + start)
                ELSE start
    IN  SubSeq(s, from + 1, Len(s))

\* str(i) for 0 <= i <= 99
Digits == <<"0","1","2","3","4","5","6","7","8","9">>
str(i) == IF i < 10 THEN <<Digits[i + 1]>>
          ELSE <<Digits[(i \div 10) + 1], Digits[(i % 10) + 1]>>

(***************************************************************************)
(* numpy arrays: number of dimensions, shape and the values in row-major   *)
(* order.                                                                  *)
(***************************************************************************)
Array(shape, flat) == [ndim |-> Len(shape), shape |-> shape, flat |-> flat]

\* value of a name that has not been assigned yet
NoArray == [ndim |-> -1, shape |-> <<>>, flat |-> <<>>]

RECURSIVE Concat(_)
Concat(seqs) == IF seqs = <<>> THEN <<>> ELSE Head(seqs) \o Concat(Tail(seqs))

RECURSIVE SumSeq(_)
SumSeq(s) == IF s = <<>> THEN 0 ELSE Head(s) + SumSeq(Tail(s))

\* rows of a 2-D array, as a sequence of sequences
RowsOf(a) ==
    [i \in 1..a.shape[1] |-> SubSeq(a.flat, (i-1) * a.shape[2] + 1, i * a.shape[2])]

\* astype(float32): integers below 2^24 in magnitude are kept exactly, larger
\* ones are rounded to a multiple of the spacing (here: to even)
float32(x) == IF -16777216 <= x /\ x <= 16777216 THEN x ELSE (x \div 2) * 2

\* np.squeeze: drop every axis of length one
squeeze(a) ==
    LET keep == SelectSeq(a.shape, LAMBDA n : n # 1)
    IN  Array(keep, a.flat)

\* np.ascontiguousarray(a, dtype=np.float32): same shape, except that a
\* 0-d array becomes 1-d; values cast to single precision
ascontiguousarray(a) ==
    Array(IF a.ndim = 0 THEN <<1>> ELSE a.shape,
          [i \in 1..Len(a.flat) |-> float32(a.flat[i])])

\* np.atleast_2d as used by np.vstack
atleast_2d(a) ==
    IF a.ndim = 0 THEN Array(<<1, 1>>, a.flat)
    ELSE IF a.ndim = 1 THEN Array(<<1, a.shape[1]>>, a.flat)
    ELSE a

\* np.vstack(arrays): raises ValueError when the list is empty or the
\* column counts differ, otherwise stacks the 2-D views row-wise
vstack(arrays) ==
    LET two == [i \in 1..Len(arrays) |-> atleast_2d(arrays[i])]
    IN  IF Len(arrays) = 0 \/ \E i \in 1..Len(two) : two[i].shape[2] # two[1].shape[2]
        THEN [raised |-> TRUE, result |-> NoArray]
        ELSE [raised |-> FALSE,
              result |-> Array(<<SumSeq([i \in 1..Len(two) |-> two[i].shape[1]]),
                                 two[1].shape[2]>>,
                               Concat([i \in 1..Len(two) |-> two[i].flat]))]

(***************************************************************************)
(* Files on disk.  A query file is described by whether it exists, how it  *)
(* is encoded, and the shape of the matrix it stores; the value stored at  *)
(* row i, column j of the f-th file is Cell(f, i, j), so every cell of a   *)
(* run is distinct and names where it came from.                           *)
(***************************************************************************)
Missing == [exists |-> FALSE, kind |-> "none", hasMatrix |-> FALSE, rows |-> 0, cols |-> 0]
Junk == [exists |-> TRUE, kind |-> "junk", hasMatrix |-> FALSE, rows |-> 0, cols |-> 0]
EmptyText == [exists |-> TRUE, kind |-> "text", hasMatrix |-> FALSE, rows |-> 0, cols |-> 0]
H5NoMatrix == [exists |-> TRUE, kind |-> "h5", hasMatrix |-> FALSE, rows |-> 0, cols |-> 0]

TextFiles ==
    {[exists |-> TRUE, kind |-> "text", hasMatrix |-> FALSE, rows |-> r, cols |-> c] :
        r \in 1..MaxRows, c \in 1..MaxCols} \cup {EmptyText}
H5Files ==
    {[exists |-> TRUE, kind |-> "h5", hasMatrix |-> TRUE, rows |-> r, cols |-> c] :
        r \in 0..MaxRows, c \in 1..MaxCols} \cup {H5NoMatrix}
NpyFiles ==
    {[exists |-> TRUE, kind |-> "npy", hasMatrix |-> FALSE, rows |-> r, cols |-> c] :
        r \in 0..MaxRows, c \in 1..MaxCols}
FileDescs == {Missing, Junk} \cup TextFiles \cup H5Files \cup NpyFiles

Cell(f, i, j) == 100 * f + 10 * i + j

\* the matrix a file stores, rows of the file in file order
StoredMatrix(f, file) ==
    Array(<<file.rows, file.cols>>,
          [n \in 1..(file.rows * file.cols) |->
              Cell(f, ((n - 1) \div file.cols) + 1, ((n - 1) % file.cols) + 1)])

(***************************************************************************)
(* Exceptions: a type and a message made of parts.                         *)
(***************************************************************************)
NoExc == [type |-> "none", msg |-> <<>>]
Exc(type, msg) == [type |-> type, msg |-> msg]

(***************************************************************************)
(* read_faiss_index.  An index file is missing, unreadable by faiss, or    *)
(* holds an index of dimension d over ntotal vectors.                      *)
(***************************************************************************)
NoIndex == [d |-> 0, ntotal |-> 0, device |-> "none"]
BadIndexFile == [valid |-> FALSE, d |-> 0, ntotal |-> 0]
IndexFiles ==
    {BadIndexFile} \cup
    {[valid |-> TRUE, d |-> d, ntotal |-> n] : d \in 1..MaxCols, n \in 1..MaxStored}

read_faiss_index(indexFile, numGpus) ==
    IF ~indexFile.valid
    THEN [raised |-> TRUE, exc |-> Exc("RuntimeError", <<>>), index |-> NoIndex]
    ELSE [raised |-> FALSE, exc |-> NoExc,
          index |-> [d |-> indexFile.d, ntotal |-> indexFile.ntotal,
                     device |-> IF numGpus # 0 THEN "gpu" ELSE "cpu"]]

(***************************************************************************)
(* index.search(embedded, k): the library primitive.  It rejects a query   *)
(* matrix that is not (n, d) and a k below 1.  Otherwise each row gets k   *)
(* slots: the first min(k, ntotal) hold stored identifiers with ascending  *)
(* squared distances that depend on the row, the rest hold the sentinel    *)
(* identifier -1 with a large squared distance.                            *)
(***************************************************************************)
SentinelId == -1
SentinelSq == 20 * 20

SlotId(index, row, j) ==
    IF j <= index.ntotal THEN ((row[1] \div 10) + j) % index.ntotal ELSE SentinelId
SlotSq(index, row, j) ==
    LET radius == ((row[1] \div 10) % 2) + (j - 1)
    IN  IF j <= index.ntotal THEN radius * radius ELSE SentinelSq

IndexSearch(index, embedded, k) ==
    IF embedded.ndim # 2 \/ k < 1
    THEN [raised |-> TRUE, D |-> NoArray, I |-> NoArray]
    ELSE IF embedded.shape[2] # index.d
    THEN [raised |-> TRUE, D |-> NoArray, I |-> NoArray]
    ELSE LET n == embedded.shape[1]
             rows == RowsOf(embedded)
         IN  [raised |-> FALSE,
              D |-> Array(<<n, k>>,
                     [c \in 1..(n * k) |->
                        SlotSq(index, rows[((c - 1) \div k) + 1], ((c - 1) % k) + 1)]),
              I |-> Array(<<n, k>>,
                     [c \in 1..(n * k) |->
                        SlotId(index, rows[((c - 1) \div k) + 1], ((c - 1) % k) + 1)])]

\* x ** 0.5 on the squared distances of the model, all perfect squares; the
\* last branch (nan) is not produced by IndexSearch
pow05(x) ==
    IF x >= 0 /\ \E r \in 0..x : r * r = x
    THEN CHOOSE r \in 0..x : r * r = x
    ELSE -1

\* search_index without the square root
search_index_squared(index, embedded, k) ==
    LET r == IndexSearch(index, embedded, k)
    IN  IF r.raised
        THEN [raised |-> TRUE, D |-> NoArray, I |-> NoArray]
        ELSE [raised |-> FALSE, D |-> r.D, I |-> r.I]

search_index(index, embedded, k) ==
    LET r == IndexSearch(index, embedded, k)
    IN  IF r.raised
        THEN [raised |-> TRUE, D |-> NoArray, I |-> NoArray]
        ELSE [raised |-> FALSE,
              D |-> Array(r.D.shape, [c \in 1..Len(r.D.flat) |-> pow05(r.D.flat[c])]),
              I |-> r.I]

(***************************************************************************)
(* write_search_results.  The file at outpath is absent, holds older       *)
(* data, is empty (created or truncated by open(..., 'w')), or is an h5    *)
(* container with some datasets.  fault says where the write fails:        *)
(* "none", "open" (h5py.File raises) or "write" (create_dataset('D')       *)
(* raises after spectrum_ids was written).  The with-statement closes the  *)
(* container on every exit.                                                *)
(***************************************************************************)
Absent == [state |-> "absent", datasets |-> <<>>]
Old == [state |-> "old", datasets |-> <<>>]
Empty == [state |-> "empty", datasets |-> <<>>]
Faults == {"none", "open", "write"}

range(n) == Array(<<n>>, [i \in 1..n |-> i - 1])

\* write_search_results numbering the columns of D instead of its rows
write_search_results_cols(D, I, old, fault) ==
    IF fault = "open"
    THEN [raised |-> TRUE, file |-> old, handle |-> "none"]
    ELSE IF fault = "write"
    THEN [raised |-> TRUE,
          file |-> [state |-> "h5",
                    datasets |-> [n \in {"spectrum_ids"} |-> range(D.shape[2])]],
          handle |-> "closed"]
    ELSE [raised |-> FALSE,
          file |-> [state |-> "h5",
                    datasets |-> [n \in {"spectrum_ids", "D", "I"} |->
                                    IF n = "spectrum_ids" THEN range(D.shape[2])
                                    ELSE IF n = "D" THEN D ELSE I]],
          handle |-> "closed"]

write_search_results(D, I, old, fault) ==
    IF fault = "open"
    THEN [raised |-> TRUE, file |-> old, handle |-> "none"]
    ELSE IF fault = "write"
    THEN [raised |-> TRUE,
          file |-> [state |-> "h5",
                    datasets |-> [n \in {"spectrum_ids"} |-> range(D.shape[1])]],
          handle |-> "closed"]
    ELSE [raised |-> FALSE,
          file |-> [state |-> "h5",
                    datasets |-> [n \in {"spectrum_ids", "D", "I"} |->
                                    IF n = "spectrum_ids" THEN range(D.shape[1])
                                    ELSE IF n = "D" THEN D ELSE I]],
          handle |-> "closed"]

(***************************************************************************)
(* loadVector and read_array_file.                                         *)
(***************************************************************************)
\* np.loadtxt(path) with the default ndmin=0: the parsed (rows, cols) table is
\* squeezed; a file without data gives an empty 1-d array; anything that is
\* not a text table raises
loadtxt(f, file) ==
    IF file.kind # "text"
    THEN [raised |-> TRUE, exc |-> Exc("ValueError", <<>>), result |-> NoArray]
    ELSE IF file.rows = 0
    THEN [raised |-> FALSE, exc |-> NoExc, result |-> Array(<<0>>, <<>>)]
    ELSE [raised |-> FALSE, exc |-> NoExc, result |-> squeeze(StoredMatrix(f, file))]

loadVector(path, f, file) ==
    IF file.exists
    THEN LET t == loadtxt(f, file)
         IN  IF t.raised THEN t
             ELSE [raised |-> FALSE, exc |-> NoExc, result |-> ascontiguousarray(t.result)]
    ELSE [raised |-> TRUE,
          exc |-> Exc("Exception", << <<"File \"">>, path, <<"\" does not exists">> >>),
          result |-> NoArray]

\* read_array_file without the finally clause: the container stays open
\* when reading MATRIX raises
read_array_file_leaky(filepath, f, file) ==
    LET extension_lower == lower(sliceFrom(filepath, rfind(filepath, ".")))
    IN  IF extension_lower = <<".", "h", "5">>
        THEN IF ~(file.exists /\ file.kind = "h5")
             THEN [raised |-> TRUE, exc |-> Exc("OSError", <<>>),
                   result |-> NoArray, h5f |-> "none"]
             ELSE IF ~file.hasMatrix
             THEN [raised |-> TRUE, exc |-> Exc("KeyError", << <<H5_MATRIX_NAME>> >>),
                   result |-> NoArray, h5f |-> "open"]
             ELSE [raised |-> FALSE, exc |-> NoExc,
                   result |-> StoredMatrix(f, file), h5f |-> "closed"]
        ELSE IF extension_lower = <<".", "n", "p", "y">>
        THEN IF file.exists /\ file.kind = "npy"
             THEN [raised |-> FALSE, exc |-> NoExc,
                   result |-> StoredMatrix(f, file), h5f |-> "none"]
             ELSE [raised |-> TRUE, exc |-> Exc("OSError", <<>>),
                   result |-> NoArray, h5f |-> "none"]
        ELSE [raised |-> TRUE,
              exc |-> Exc("ValueError",
                          << <<"read_array_file: Unknown extension ">>, extension_lower,
                             <<" for file ">>, filepath >>),
              result |-> NoArray, h5f |-> "none"]

\* the result also reports what became of the container handle h5f:
\* "none" (never opened), "open" or "closed"
read_array_file(filepath, f, file) ==
    LET extension_lower == lower(sliceFrom(filepath, rfind(filepath, ".")))
    IN  IF extension_lower = <<".", "h", "5">>
        THEN IF ~(file.exists /\ file.kind = "h5")
             THEN \* h5py.File raises, h5f is still None in the finally clause
                  [raised |-> TRUE, exc |-> Exc("OSError", <<>>),
                   result |-> NoArray, h5f |-> "none"]
             ELSE IF ~file.hasMatrix
             THEN [raised |-> TRUE, exc |-> Exc("KeyError", << <<H5_MATRIX_NAME>> >>),
                   result |-> NoArray, h5f |-> "closed"]
             ELSE [raised |-> FALSE, exc |-> NoExc,
                   result |-> StoredMatrix(f, file), h5f |-> "closed"]
        ELSE IF extension_lower = <<".", "n", "p", "y">>
        THEN IF file.exists /\ file.kind = "npy"
             THEN [raised |-> FALSE, exc |-> NoExc,
                   result |-> StoredMatrix(f, file), h5f |-> "none"]
             ELSE [raised |-> TRUE, exc |-> Exc("OSError", <<>>),
                   result |-> NoArray, h5f |-> "none"]
        ELSE [raised |-> TRUE,
              exc |-> Exc("ValueError",
                          << <<"read_array_file: Unknown extension ">>, extension_lower,
                             <<" for file ">>, filepath >>),
              result |-> NoArray, h5f |-> "none"]

(***************************************************************************)
(* The run.                                                                *)
(*   mode              "cli" (main), "batch" (the __main__ loop) or "load" *)
(*                     (one call of a loader on its own)                   *)
(*   pc                where the run is: "start", "index", "vectors",      *)
(*                     "search", "write", "done", "failed"                 *)
(*   indexFile, numGpus, the environment: the index file on disk and       *)
(*                     faiss.get_num_gpus()                                *)
(*   args              what declare_gather_args returned                   *)
(*   index, embedded_arrays, embedded_spectra, D, I   the locals of main   *)
(*                     and executeSearch                                   *)
(*   i                 the loop index (file position, 1-based)             *)
(*   outfiles          the file at each job's output path                  *)
(*   outHandle         the handle argparse opened for --out                *)
(*   writeHandle       the container handle of write_search_results        *)
(*   lastLoad          the last call of loadVector or read_array_file:     *)
(*                     its arguments, and once it ran, its outcome         *)
(*   files             the query files read so far, as they are on disk    *)
(*   calls             per job, the (n, k) of the search that was run      *)
(*   primitive         what index.search returned to the last search_index *)
(*   failedAt          the step that raised, "none" before                 *)
(*   log               the steps attempted, in order (the progress prints) *)
(***************************************************************************)
VARIABLES mode, pc, indexFile, numGpus, args, index, embedded_arrays,
          embedded_spectra, D, I, i, outfiles, outHandle, writeHandle,
          lastLoad, files, calls, primitive, failedAt, log

vars == <<mode, pc, indexFile, numGpus, args, index, embedded_arrays,
          embedded_spectra, D, I, i, outfiles, outHandle, writeHandle,
          lastLoad, files, calls, primitive, failedAt, log>>

NoArgs == [k |-> 0, n |-> 0]
NoCall == [n |-> -1, k |-> -1]
NoPrimitive == [D |-> NoArray, I |-> NoArray]
NoLoad == [fn |-> "none", path |-> <<>>, file |-> Missing, raised |-> FALSE,
           exc |-> NoExc, returned |-> FALSE, h5f |-> "none"]

\* --k as given on the command line: absent, or one value
KArgs == {<<>>, <<2>>}

Jobs == IF mode = "batch" THEN 1..NumFiles ELSE {1}

\* the paths the batch loop builds from all_file[i]
EmbeddedPath(n) ==
    <<".", "/", "E", "2", "_", "h", "5", "/", "R", "P">> \o str(n)
        \o <<"_", "2", ".", "h", "5">>
\* the paths given to main: one sample name per position
ArgPath(n) == <<"q">> \o str(n) \o <<".", "t", "x", "t">>

Init ==
    /\ mode \in {"cli", "batch"}
    /\ pc = IF mode = "cli" THEN "start" ELSE "index"
    /\ indexFile \in IndexFiles
    /\ numGpus \in {0, 1}
    /\ args = NoArgs
    /\ index = NoIndex
    /\ embedded_arrays = <<>>
    /\ embedded_spectra = NoArray
    /\ D = NoArray
    /\ I = NoArray
    /\ i = 1
    /\ \E o \in {Absent, Old} : outfiles = [j \in Jobs |-> o]
    /\ outHandle = "none"
    /\ writeHandle = "none"
    /\ lastLoad = NoLoad
    /\ files = <<>>
    /\ calls = [j \in Jobs |-> NoCall]
    /\ primitive = NoPrimitive
    /\ failedAt = "none"
    /\ log = <<>>

\* a loop that catches a failed vector load and goes on with the next turn
Propagate_skip(step) == IF step = "vectors" THEN "vectors" ELSE "failed"

\* Neither main, executeSearch nor the batch loop has a try/except: an
\* exception raised by a step leaves the run, whatever the step.
Propagate(step) == "failed"

Raise(step) ==
    /\ pc' = Propagate(step)
    /\ failedAt' = step

(***************************************************************************)
(* main                                                                    *)
(***************************************************************************)
\* declare_gather_args: argparse opens indexfile and every embedded file for
\* reading and --out for writing (creating or truncating it) while parsing.
\* A path that cannot be opened ends the run with a usage error; --out may
\* or may not have been opened by then, depending on the order in argv.
DeclareGatherArgs ==
    /\ mode = "cli" /\ pc = "start"
    /\ \E ok \in BOOLEAN, outOpened \in BOOLEAN, n \in 1..MaxFiles, k \in KArgs :
          /\ IF ok
             THEN /\ args' = [k |-> IF k = <<>> THEN DefaultK ELSE k[1], n |-> n]
                  /\ outfiles' = [outfiles EXCEPT ![1] = Empty]
                  /\ outHandle' = "open"
                  /\ pc' = "index"
                  /\ failedAt' = failedAt
             ELSE /\ args' = args
                  /\ outfiles' = IF outOpened THEN [outfiles EXCEPT ![1] = Empty]
                                  ELSE outfiles
                  /\ outHandle' = IF outOpened THEN "open" ELSE "none"
                  /\ Raise("parse")
    /\ log' = Append(log, "parse")
    /\ UNCHANGED <<mode, indexFile, numGpus, index, embedded_arrays, embedded_spectra,
                   D, I, i, writeHandle, lastLoad, files, calls, primitive>>

MainReadIndex ==
    /\ mode = "cli" /\ pc = "index"
    /\ LET r == read_faiss_index(indexFile, numGpus)
       IN  IF r.raised
           THEN Raise("index") /\ index' = index
           ELSE pc' = "vectors" /\ failedAt' = failedAt /\ index' = r.index
    /\ embedded_arrays' = <<>>
    /\ log' = Append(log, "index")
    /\ UNCHANGED <<mode, indexFile, numGpus, args, embedded_spectra, D, I, i, outfiles,
                   outHandle, writeHandle, lastLoad, files, calls, primitive>>

\* one turn of 'for embedded_file in args.embedded'
MainLoadVector ==
    /\ mode = "cli" /\ pc = "vectors" /\ i <= args.n
    /\ \E file \in FileDescs :
          LET r == loadVector(ArgPath(i), i, file)
          IN  /\ files' = Append(files, file)
              /\ lastLoad' = [fn |-> "loadVector", path |-> ArgPath(i), file |-> file,
                              raised |-> r.raised, exc |-> r.exc,
                              returned |-> ~r.raised, h5f |-> "none"]
              /\ IF r.raised
                 THEN Raise("vectors") /\ UNCHANGED <<embedded_arrays, i>>
                 ELSE /\ embedded_arrays' = Append(embedded_arrays, r.result)
                      /\ i' = i + 1
                      /\ UNCHANGED <<pc, failedAt>>
    /\ log' = Append(log, "vectors")
    /\ UNCHANGED <<mode, indexFile, numGpus, args, index, embedded_spectra, D, I,
                   outfiles, outHandle, writeHandle, calls, primitive>>

\* embedded_spectra = np.vstack(embedded_arrays), after the loop
MainStack ==
    /\ mode = "cli" /\ pc = "vectors" /\ i > args.n
    /\ LET r == vstack(embedded_arrays)
       IN  IF r.raised
           THEN Raise("stack") /\ embedded_spectra' = embedded_spectra
           ELSE pc' = "search" /\ failedAt' = failedAt /\ embedded_spectra' = r.result
    /\ log' = Append(log, "stack")
    /\ UNCHANGED <<mode, indexFile, numGpus, args, index, embedded_arrays, D, I, i,
                   outfiles, outHandle, writeHandle, lastLoad, files, calls, primitive>>

MainSearch ==
    /\ mode = "cli" /\ pc = "search"
    /\ LET r == search_index(index, embedded_spectra, args.k)
           p == IndexSearch(index, embedded_spectra, args.k)
       IN  IF r.raised
           THEN Raise("search") /\ UNCHANGED <<D, I, calls, primitive>>
           ELSE /\ pc' = "write" /\ failedAt' = failedAt
                /\ D' = r.D /\ I' = r.I
                /\ primitive' = [D |-> p.D, I |-> p.I]
                /\ calls' = [calls EXCEPT ![1] = [n |-> embedded_spectra.shape[1],
                                                   k |-> args.k]]
    /\ log' = Append(log, "search")
    /\ UNCHANGED <<mode, indexFile, numGpus, args, index, embedded_arrays,
                   embedded_spectra, i, outfiles, outHandle, writeHandle, lastLoad,
                   files>>

\* args.out.close(); write_search_results(D, I, args.out.name); args.out.close()
MainWrite ==
    /\ mode = "cli" /\ pc = "write"
    /\ outHandle' = "closed"
    /\ \E fault \in Faults :
          LET r == write_search_results(D, I, outfiles[1], fault)
          IN  /\ outfiles' = [outfiles EXCEPT ![1] = r.file]
              /\ writeHandle' = r.handle
              /\ IF r.raised THEN Raise("write")
                 ELSE pc' = "done" /\ failedAt' = failedAt
    /\ log' = Append(log, "write")
    /\ UNCHANGED <<mode, indexFile, numGpus, args, index, embedded_arrays,
                   embedded_spectra, D, I, i, lastLoad, files, calls, primitive>>

(***************************************************************************)
(* The batch loop: executeSearch(embedded, indexfile, resultfile) for each *)
(* entry of all_file.                                                      *)
(***************************************************************************)
ExecReadIndex ==
    /\ mode = "batch" /\ pc = "index"
    /\ LET r == read_faiss_index(indexFile, numGpus)
       IN  IF r.raised
           THEN Raise("index") /\ index' = index
           ELSE pc' = "vectors" /\ failedAt' = failedAt /\ index' = r.index
    /\ embedded_arrays' = <<>>
    /\ log' = Append(log, "index")
    /\ UNCHANGED <<mode, indexFile, numGpus, args, embedded_spectra, D, I, i, outfiles,
                   outHandle, writeHandle, lastLoad, files, calls, primitive>>

\* run_spectra = read_array_file(embedded); append; vstack
ExecReadArray ==
    /\ mode = "batch" /\ pc = "vectors"
    /\ \E file \in FileDescs :
          LET r == read_array_file(EmbeddedPath(i), i, file)
              s == vstack(<<r.result>>)
          IN  /\ files' = Append(files, file)
              /\ lastLoad' = [fn |-> "read_array_file", path |-> EmbeddedPath(i),
                              file |-> file, raised |-> r.raised, exc |-> r.exc,
                              returned |-> ~r.raised, h5f |-> r.h5f]
              /\ IF r.raised
                 THEN Raise("vectors") /\ UNCHANGED <<embedded_arrays, embedded_spectra>>
                 ELSE /\ embedded_arrays' = <<r.result>>
                      /\ embedded_spectra' = s.result
                      /\ pc' = "search" /\ failedAt' = failedAt
    /\ log' = Append(log, "vectors")
    /\ UNCHANGED <<mode, indexFile, numGpus, args, index, D, I, i, outfiles, outHandle,
                   writeHandle, calls, primitive>>

ExecSearch ==
    /\ mode = "batch" /\ pc = "search"
    /\ LET r == search_index(index, embedded_spectra, BatchK)
           p == IndexSearch(index, embedded_spectra, BatchK)
       IN  IF r.raised
           THEN Raise("search") /\ UNCHANGED <<D, I, calls, primitive>>
           ELSE /\ pc' = "write" /\ failedAt' = failedAt
                /\ D' = r.D /\ I' = r.I
                /\ primitive' = [D |-> p.D, I |-> p.I]
                /\ calls' = [calls EXCEPT ![i] = [n |-> embedded_spectra.shape[1],
                                                   k |-> BatchK]]
    /\ log' = Append(log, "search")
    /\ UNCHANGED <<mode, indexFile, numGpus, args, index, embedded_arrays,
                   embedded_spectra, i, outfiles, outHandle, writeHandle, lastLoad,
                   files>>

\* write_search_results(D, I, resultfile), return, and the loop's next turn
ExecWrite ==
    /\ mode = "batch" /\ pc = "write"
    /\ \E fault \in Faults :
          LET r == write_search_results(D, I, outfiles[i], fault)
          IN  /\ outfiles' = [outfiles EXCEPT ![i] = r.file]
              /\ writeHandle' = r.handle
              /\ IF r.raised
                 THEN Raise("write") /\ i' = i
                 ELSE /\ pc' = IF i = NumFiles THEN "done" ELSE "index"
                      /\ i' = IF i = NumFiles THEN i ELSE i + 1
                      /\ failedAt' = failedAt
    /\ log' = Append(log, "write")
    /\ UNCHANGED <<mode, indexFile, numGpus, args, index, embedded_arrays,
                   embedded_spectra, D, I, outHandle, lastLoad, files, calls,
                   primitive>>

Next ==
    \/ DeclareGatherArgs
    \/ MainReadIndex
    \/ MainLoadVector
    \/ MainStack
    \/ MainSearch
    \/ MainWrite
    \/ ExecReadIndex
    \/ ExecReadArray
    \/ ExecSearch
    \/ ExecWrite

Spec == Init /\ [][Next]_vars

(***************************************************************************)
(* The loaders on their own: one call of loadVector or read_array_file on  *)
(* a path and a file drawn from the samples below.                         *)
(***************************************************************************)
Paths ==
    { <<"q", ".", "t", "x", "t">>,
      <<"q", ".", "h", "5">>,
      <<"q", ".", "H", "5">>,
      <<"q", ".", "n", "p", "y">>,
      <<"q", ".", "N", "p", "y">>,
      <<"q", ".", "d", "a", "t">>,
      <<"q", ".", "h", "5", ".", "b", "a", "k">>,
      <<"d", ".", "h", "5", "/", "q">>,
      <<"q">> }

InitLoad ==
    /\ mode = "load"
    /\ pc = "start"
    /\ indexFile = BadIndexFile
    /\ numGpus = 0
    /\ args = NoArgs
    /\ index = NoIndex
    /\ embedded_arrays = <<>>
    /\ embedded_spectra = NoArray
    /\ D = NoArray
    /\ I = NoArray
    /\ i = 1
    /\ outfiles = [j \in {1} |-> Absent]
    /\ outHandle = "none"
    /\ writeHandle = "none"
    /\ \E path \in Paths, file \in FileDescs :
          lastLoad = [NoLoad EXCEPT !.path = path, !.file = file]
    /\ files = <<>>
    /\ calls = [j \in {1} |-> NoCall]
    /\ primitive = NoPrimitive
    /\ failedAt = "none"
    /\ log = <<>>

CallLoadVector ==
    /\ mode = "load" /\ pc = "start"
    /\ LET r == loadVector(lastLoad.path, 1, lastLoad.file)
       IN  /\ lastLoad' = [lastLoad EXCEPT !.fn = "loadVector", !.raised = r.raised,
                                           !.exc = r.exc, !.returned = ~r.raised]
           /\ embedded_arrays' = IF r.raised THEN <<>> ELSE <<r.result>>
    /\ pc' = "done"
    /\ UNCHANGED <<mode, indexFile, numGpus, args, index, embedded_spectra, D, I, i,
                   outfiles, outHandle, writeHandle, files, calls, primitive, failedAt,
                   log>>

CallReadArrayFile ==
    /\ mode = "load" /\ pc = "start"
    /\ LET r == read_array_file(lastLoad.path, 1, lastLoad.file)
       IN  /\ lastLoad' = [lastLoad EXCEPT !.fn = "read_array_file",
                                           !.raised = r.raised, !.exc = r.exc,
                                           !.returned = ~r.raised, !.h5f = r.h5f]
           /\ embedded_arrays' = IF r.raised THEN <<>> ELSE <<r.result>>
    /\ pc' = "done"
    /\ UNCHANGED <<mode, indexFile, numGpus, args, index, embedded_spectra, D, I, i,
                   outfiles, outHandle, writeHandle, files, calls, primitive, failedAt,
                   log>>

NextLoad == CallLoadVector \/ CallReadArrayFile

SpecLoad == InitLoad /\ [][NextLoad]_vars

(***************************************************************************)
(* Properties.                                                             *)
(***************************************************************************)
AllDatasets == {"spectrum_ids", "D", "I"}

\* write_search_results has returned for job j
Written(j) ==
    /\ outfiles[j].state = "h5"
    /\ \/ pc = "done"
       \/ mode = "batch" /\ j < i

\* C1: every result container that write_search_results has written for a
\* search over N query rows with k neighbours holds exactly the three
\* datasets spectrum_ids, D and I; spectrum_ids is the sequence 0..N-1, and
\* D and I both have shape (N, k).  Both callers, any N >= 0.
C1_ResultFileShape ==
    \A j \in Jobs :
        Written(j) =>
            LET ds == outfiles[j].datasets
                N == calls[j].n
                k == calls[j].k
            IN  /\ DOMAIN ds = AllDatasets
                /\ ds["spectrum_ids"].shape = <<N>>
                /\ ds["spectrum_ids"].flat = [x \in 1..N |-> x - 1]
                /\ ds["D"].shape = <<N, k>>
                /\ ds["I"].shape = <<N, k>>
                /\ Len(ds["D"].flat) = N * k
                /\ Len(ds["I"].flat) = N * k

C1_Witness ==
    \E j \in Jobs : Written(j) /\ calls[j].n >= 2 /\ calls[j].n # calls[j].k

\* the files main or the current executeSearch call has read
QueryFiles == IF mode = "batch" THEN <<files[Len(files)]>> ELSE files
FirstQueryFile == IF mode = "batch" THEN i ELSE 1

\* text tables with at least one line: their column count is what the file says
HasColumns(file) == file.exists /\ file.kind = "text" /\ file.rows >= 1

ColumnsDiffer(fs) ==
    \E a, b \in 1..Len(fs) :
        HasColumns(fs[a]) /\ HasColumns(fs[b]) /\ fs[a].cols # fs[b].cols

\* C2: in a run of main whose query files disagree on the column count, the
\* concatenation raises and the output path is never created, truncated or
\* written.
C2_MismatchWritesNothing ==
    (mode = "cli" /\ ColumnsDiffer(files)) =>
        /\ outfiles[1] \in {Absent, Old}
        /\ pc \notin {"search", "write", "done"}
        /\ (pc = "failed" /\ Len(files) = args.n /\ failedAt # "vectors")
               => failedAt = "stack"

\* C3: the query matrix handed to the search has as many rows as the files
\* read for it have together, and its rows are the rows of the files, file
\* after file, each file's rows in their order.
C3_RowsPreserved ==
    (pc \in {"search", "write"}) =>
        LET stored == [n \in 1..Len(QueryFiles) |->
                         StoredMatrix(FirstQueryFile + n - 1, QueryFiles[n])]
        IN  /\ embedded_spectra.ndim = 2
            /\ embedded_spectra.shape[1] = SumSeq([n \in 1..Len(stored) |-> stored[n].shape[1]])
            /\ RowsOf(embedded_spectra) = Concat([n \in 1..Len(stored) |-> RowsOf(stored[n])])

\* the k the run resolved: --k, DefaultK when it is not given
ResolvedK == IF mode = "cli" THEN args.k ELSE DefaultK

\* C4: every written D and I has exactly the resolved k columns, on both
\* entry paths.
C4_SearchUsesResolvedK ==
    \A j \in Jobs :
        (Written(j) /\ DOMAIN outfiles[j].datasets = AllDatasets) =>
            /\ outfiles[j].datasets["D"].shape[2] = ResolvedK
            /\ outfiles[j].datasets["I"].shape[2] = ResolvedK

\* the extensions the loaders' docstrings name
Recognised == { <<".", "t", "x", "t">>, <<".", "h", "5">>, <<".", "n", "p", "y">> }
ExtensionOf(path) == lower(sliceFrom(path, rfind(path, ".")))
Includes(msg, part) == \E n \in 1..Len(msg) : msg[n] = part

\* C5: a loader called on a path whose extension is not recognised raises
\* the unsupported-format error, with the extension and the path in its
\* message, and returns no matrix; loadVector and read_array_file alike.
C5_UnknownExtensionRejected ==
    (/\ lastLoad.fn # "none"
     /\ lastLoad.file.exists
     /\ ExtensionOf(lastLoad.path) \notin Recognised) =>
        /\ lastLoad.raised
        /\ ~lastLoad.returned
        /\ lastLoad.exc.type = "ValueError"
        /\ Includes(lastLoad.exc.msg, ExtensionOf(lastLoad.path))
        /\ Includes(lastLoad.exc.msg, lastLoad.path)

\* C6: when the run has ended, in success or in failure, no handle on the
\* output path is open.
C6_OutputHandleClosed ==
    (pc \in {"done", "failed"}) => (outHandle # "open" /\ writeHandle # "open")

\* C7: the steps of a run are logged in the order index, vectors, (stack,)
\* search, write, and the index is loaded once.
StepRank(step) ==
    CASE step = "parse" -> 0
      [] step = "index" -> 1
      [] step = "vectors" -> 2
      [] step = "stack" -> 3
      [] step = "search" -> 4
      [] step = "write" -> 5
C7_IndexLoadedOnce ==
    /\ Cardinality({n \in 1..Len(log) : log[n] = "index"}) <= 1
    /\ \A a, b \in 1..Len(log) : a < b => StepRank(log[a]) <= StepRank(log[b])

\* C8: once a step has raised, the run takes no further step: no file is
\* read, no search is run, nothing is written and nothing is logged.
C8_ErrorsAreFatal ==
    [][failedAt # "none" =>
          /\ pc = "failed"
          /\ UNCHANGED <<log, files, lastLoad, calls, outfiles, D, I, embedded_spectra>>]_vars

C8_Witness ==
    /\ failedAt = "vectors"
    /\ pc = "failed"
    /\ Len(files) < (IF mode = "batch" THEN NumFiles ELSE args.n)

\* C9: search_index returns, cell by cell, the non-negative square root of
\* the squared distance the primitive returned, and the primitive's
\* identifiers unchanged, sentinels included.
C9_SearchTakesRoots ==
    (D # NoArray) =>
        /\ D.shape = primitive.D.shape
        /\ Len(D.flat) = Len(primitive.D.flat)
        /\ \A c \in 1..Len(D.flat) :
              D.flat[c] >= 0 /\ D.flat[c] * D.flat[c] = primitive.D.flat[c]
        /\ I = primitive.I

C9_Witness ==
    /\ D # NoArray
    /\ \E c \in 1..Len(D.flat) : primitive.D.flat[c] = 4 /\ D.flat[c] = 2
    /\ \E c \in 1..Len(I.flat) : I.flat[c] = SentinelId
    /\ \E c \in 1..(Len(I.flat) - 1) : I.flat[c] > I.flat[c + 1] /\ I.flat[c + 1] >= 0

\* C10: read_array_file on a .h5 path leaves no container open: a file that
\* opened is closed after a successful read and after a failed read of
\* MATRIX, the failure reaches the caller as the KeyError it was, and a file
\* that did not open is not closed.
C10_ContainerClosed ==
    (lastLoad.fn = "read_array_file" /\ ExtensionOf(lastLoad.path) = <<".", "h", "5">>) =>
        LET file == lastLoad.file
            opened == file.exists /\ file.kind = "h5"
        IN  /\ lastLoad.h5f # "open"
            /\ opened => lastLoad.h5f = "closed"
            /\ ~opened => (lastLoad.h5f = "none" /\ lastLoad.raised)
            /\ (opened /\ ~file.hasMatrix) =>
                  (lastLoad.raised /\ lastLoad.exc.type = "KeyError" /\ ~lastLoad.returned)
            /\ (opened /\ file.hasMatrix) => (~lastLoad.raised /\ lastLoad.returned)

C10_Witness ==
    /\ lastLoad.fn = "read_array_file"
    /\ ExtensionOf(lastLoad.path) = <<".", "h", "5">>
    /\ lastLoad.file = H5NoMatrix
    /\ lastLoad.raised
    /\ lastLoad.h5f = "closed"

====
